---- MODULE Spec2Model ----
(***************************************************************************)
(* A model of the BMP280 driver libBar/bmp280.py: the device context, the  *)
(* register transport over the I2C handle, context creation and release,   *)
(* the configuration setters, the compensation formulas and the status     *)
(* polls, together with the register file of the device they talk to.     *)
(*                                                                         *)
(* One action stands for one call of a public function.  Where the code    *)
(* computes with Python floats the model computes with exact rationals     *)
(* over arbitrary-size integers, in the order of the code.                 *)
(***************************************************************************)
EXTENDS Integers, Sequences, FiniteSets, TLC

(***************************************************************************)
(* Constants of bmp280.py                                                  *)
(***************************************************************************)
cfg_PWRSLP == 0
cfg_PWRFOR == 1
cfg_PWRNRM == 3
cfg_TSB125 == 2
cfg_OSSPSKP == 0
cfg_OSSTSKP == 0
cfg_FLTR2 == 1

reg_ID == 208
reg_RESET == 224
reg_STATUS == 243
reg_CTRLMEAS == 244
reg_CONFIG == 245
reg_PRESS0 == 247
reg_PRESS1 == 248
reg_PRESS2 == 249
reg_TEMP0 == 250
reg_TEMP1 == 251
reg_TEMP2 == 252

\* the soft-reset trigger byte
ResetTrigger == 182

\* the I2C address by the state of the vco pin
AddrOf(vco) == IF vco THEN 119 ELSE 118

\* the absent value (Python's None) of the descriptor and of index 0 of
\* the trimming lists
None == -1

(***************************************************************************)
(* Python's integer operators << | & on unbounded two's-complement ints    *)
(***************************************************************************)
RECURSIVE Pow2(_)
Pow2(k) == IF k = 0 THEN 1 ELSE 2 * Pow2(k - 1)

Shl(a, k) == a * Pow2(k)

RECURSIVE BitOr(_, _)
BitOr(a, b) ==
    IF a = 0 THEN b
    ELSE IF b = 0 THEN a
    ELSE IF a = -1 \/ b = -1 THEN -1
    ELSE (IF a % 2 = 1 \/ b % 2 = 1 THEN 1 ELSE 0)
         + 2 * BitOr(a \div 2, b \div 2)

RECURSIVE BitAnd(_, _)
BitAnd(a, b) ==
    IF a = 0 \/ b = 0 THEN 0
    ELSE IF a = -1 THEN b
    ELSE IF b = -1 THEN a
    ELSE (IF a % 2 = 1 /\ b % 2 = 1 THEN 1 ELSE 0)
         + 2 * BitAnd(a \div 2, b \div 2)

(***************************************************************************)
(* Arithmetic of the compensation formulas.  A natural number is the       *)
(* sequence of its base-Limb digits, least significant first, without      *)
(* leading zeros; an integer is a sign and a magnitude; a number of the    *)
(* formulas is a fraction n / (2^e * q).                                   *)
(***************************************************************************)
Limb == 32768

RECURSIVE NatOf(_)
NatOf(i) == IF i = 0 THEN << >> ELSE <<i % Limb>> \o NatOf(i \div Limb)

RECURSIVE NatNorm(_)
NatNorm(a) ==
    IF a = << >> THEN a
    ELSE IF a[Len(a)] = 0 THEN NatNorm(SubSeq(a, 1, Len(a) - 1))
    ELSE a

Digit(a, i) == IF i <= Len(a) THEN a[i] ELSE 0

\* The digit loops split their range in halves, the low half first: [d, c]
\* are the digits of the range and the carry out of it.

\* digits lo..hi of a + b with carry c into digit lo
RECURSIVE NatAddRange(_, _, _, _, _)
NatAddRange(a, b, lo, hi, c) ==
    IF lo > hi THEN [d |-> << >>, c |-> c]
    ELSE IF lo = hi
    THEN LET t == Digit(a, lo) + Digit(b, lo) + c
         IN  [d |-> <<t % Limb>>, c |-> t \div Limb]
    ELSE LET mid == (lo + hi) \div 2
             L   == NatAddRange(a, b, lo, mid, c)
             H   == NatAddRange(a, b, mid + 1, hi, L.c)
         IN  [d |-> L.d \o H.d, c |-> H.c]

\* the digits of a range that starts at digit 1, with the carry out of it
WithCarry(r) == IF r.c = 0 THEN r.d ELSE r.d \o <<r.c>>

NatAdd(a, b) ==
    WithCarry(NatAddRange(a, b, 1, IF Len(a) > Len(b) THEN Len(a) ELSE Len(b), 0))

\* digits lo..hi of a - b with borrow c from digit lo
RECURSIVE NatSubRange(_, _, _, _, _)
NatSubRange(a, b, lo, hi, c) ==
    IF lo > hi THEN [d |-> << >>, c |-> c]
    ELSE IF lo = hi
    THEN LET t == Digit(a, lo) - Digit(b, lo) - c
         IN  [d |-> <<t % Limb>>, c |-> IF t < 0 THEN 1 ELSE 0]
    ELSE LET mid == (lo + hi) \div 2
             L   == NatSubRange(a, b, lo, mid, c)
             H   == NatSubRange(a, b, mid + 1, hi, L.c)
         IN  [d |-> L.d \o H.d, c |-> H.c]

\* a - b for a >= b
NatSub(a, b) == NatNorm(NatSubRange(a, b, 1, Len(a), 0).d)

\* -1, 0, 1 as a < b, a = b, a > b
NatCmp(a, b) ==
    IF Len(a) < Len(b) THEN -1
    ELSE IF Len(a) > Len(b) THEN 1
    ELSE IF a = b THEN 0
    ELSE IF \E i \in 1..Len(a) :
               a[i] < b[i] /\ \A k \in (i + 1)..Len(a) : a[k] = b[k]
    THEN -1
    ELSE 1

\* digits lo..hi of a * m for one digit m, with carry c into digit lo
RECURSIVE NatMulDigitRange(_, _, _, _, _)
NatMulDigitRange(a, m, lo, hi, c) ==
    IF lo > hi THEN [d |-> << >>, c |-> c]
    ELSE IF lo = hi
    THEN LET t == a[lo] * m + c
         IN  [d |-> <<t % Limb>>, c |-> t \div Limb]
    ELSE LET mid == (lo + hi) \div 2
             L   == NatMulDigitRange(a, m, lo, mid, c)
             H   == NatMulDigitRange(a, m, mid + 1, hi, L.c)
         IN  [d |-> L.d \o H.d, c |-> H.c]

NatMulDigit(a, m) ==
    IF m = 0 THEN << >> ELSE WithCarry(NatMulDigitRange(a, m, 1, Len(a), 0))

\* a shifted up by k digits
NatShift(a, k) == IF a = << >> THEN a ELSE [i \in 1..k |-> 0] \o a

\* a times the digits lo..hi of b, as if they were digits 1..(hi-lo+1)
RECURSIVE NatMulRange(_, _, _, _)
NatMulRange(a, b, lo, hi) ==
    IF lo = hi THEN NatMulDigit(a, b[lo])
    ELSE LET mid == (lo + hi) \div 2
         IN  NatAdd(NatMulRange(a, b, lo, mid),
                    NatShift(NatMulRange(a, b, mid + 1, hi), mid + 1 - lo))

NatMul(a, b) ==
    IF a = << >> \/ b = << >> THEN << >> ELSE NatMulRange(a, b, 1, Len(b))

\* integers: neg is the sign, mag the magnitude; zero is never negative
IntOf(i) == [neg |-> i < 0, mag |-> NatOf(IF i < 0 THEN 0 - i ELSE i)]

\* the integer of sign neg and magnitude m
Signed(neg, m) == [neg |-> neg /\ m # << >>, mag |-> m]

IntNeg(x) == Signed(~x.neg, x.mag)

IntAdd(x, y) ==
    IF x.neg = y.neg THEN [neg |-> x.neg, mag |-> NatAdd(x.mag, y.mag)]
    ELSE LET c == NatCmp(x.mag, y.mag)
         IN  IF c = 0 THEN [neg |-> FALSE, mag |-> << >>]
             ELSE IF c > 0 THEN [neg |-> x.neg, mag |-> NatSub(x.mag, y.mag)]
             ELSE [neg |-> y.neg, mag |-> NatSub(y.mag, x.mag)]

IntMul(x, y) == Signed(x.neg # y.neg, NatMul(x.mag, y.mag))

\* -1, 0, 1 as x < y, x = y, x > y
IntCmp(x, y) ==
    IF x.neg /\ ~y.neg THEN -1
    ELSE IF ~x.neg /\ y.neg THEN 1
    ELSE IF x.neg THEN NatCmp(y.mag, x.mag)
    ELSE NatCmp(x.mag, y.mag)

\* fractions: the value of [n, e, q] is n / (2^e * q), n an integer, e a
\* natural number, q a positive natural
One == <<1>>

Num(i) == [n |-> IntOf(i), e |-> 0, q |-> One]

PosOf(m) == [neg |-> FALSE, mag |-> m]

\* 2^k as a natural
NatPow2(k) == [i \in 1..(k \div 15) |-> 0] \o <<Pow2(k % 15)>>

IntShl(x, k) == IF k = 0 THEN x ELSE IntMul(x, PosOf(NatPow2(k)))

IntTimes(x, m) == IF m = One THEN x ELSE IntMul(x, PosOf(m))

\* the same value with whole zero digits cancelled between n, q and 2^e
RECURSIVE FNorm(_)
FNorm(x) ==
    IF x.n.mag = << >> THEN [n |-> x.n, e |-> 0, q |-> One]
    ELSE IF x.q[1] = 0
    THEN FNorm([x EXCEPT !.q = Tail(@), !.e = @ + 15])
    ELSE IF x.n.mag[1] = 0 /\ x.e >= 15
    THEN FNorm([x EXCEPT !.n.mag = Tail(@), !.e = @ - 15])
    ELSE x

\* x + y: both numerators brought to the exponent e, then to one q
FAdd(x, y) ==
    LET e == IF x.e > y.e THEN x.e ELSE y.e
        Sum(xn, yn) ==
            FNorm([n |-> IntAdd(IF x.q = y.q THEN xn ELSE IntTimes(xn, y.q),
                                IF x.q = y.q THEN yn ELSE IntTimes(yn, x.q)),
                   e |-> e,
                   q |-> IF x.q = y.q THEN x.q ELSE NatMul(x.q, y.q)])
    IN  Sum(IntShl(x.n, e - x.e), IntShl(y.n, e - y.e))

FNeg(x) == [x EXCEPT !.n = IntNeg(x.n)]

FSub(x, y) == FAdd(x, FNeg(y))

FMul(x, y) ==
    FNorm([n |-> IntMul(x.n, y.n), e |-> x.e + y.e, q |-> NatMul(x.q, y.q)])

\* the exponent of two in a natural that is a power of two, -1 otherwise
NatLog2(m) ==
    IF m # << >> /\ (\A i \in 1..(Len(m) - 1) : m[i] = 0)
       /\ (\E k \in 0..14 : m[Len(m)] = Pow2(k))
    THEN 15 * (Len(m) - 1) + (CHOOSE k \in 0..14 : m[Len(m)] = Pow2(k))
    ELSE -1

\* x / y for y # 0
FDiv(x, y) ==
    LET l == NatLog2(y.n.mag)
        Quot(num, den, ex) ==
            FNorm([n |-> IF ex >= y.e THEN num ELSE IntShl(num, y.e - ex),
                   e |-> IF ex >= y.e THEN ex - y.e ELSE 0,
                   q |-> den])
    IN  Quot(IntTimes(IF y.n.neg THEN IntNeg(x.n) ELSE x.n, y.q),
             IF l >= 0 THEN x.q ELSE NatMul(x.q, y.n.mag),
             x.e + (IF l >= 0 THEN l ELSE 0))

FIsZero(x) == x.n.mag = << >>

\* -1, 0, 1 as x < y, x = y, x > y
FCmp(x, y) ==
    IntCmp(IntShl(IntTimes(x.n, y.q), y.e), IntShl(IntTimes(y.n, x.q), x.e))

FEq(x, y) == FCmp(x, y) = 0

\* a fraction of small integers, a / b
Frac(a, b) == FDiv(Num(a), Num(b))

(***************************************************************************)
(* The device behind the bus: its register file                            *)
(***************************************************************************)
\* the 24 bytes of the calibration block, 0x88..0x9F
CalRegs == 136..159

\* the registers the device itself drives: status and conversion results
DataRegs == {reg_PRESS0, reg_PRESS1, reg_PRESS2, reg_TEMP0, reg_TEMP1, reg_TEMP2}

VolatileRegs == DataRegs \cup {reg_STATUS}

\* the registers that keep what was stored in them
DevRegs == CalRegs \cup {reg_ID, reg_CTRLMEAS, reg_CONFIG}

\* the byte a read of register reg returns: vol is what the registers the
\* device drives show at the time of the call
DevRead(d, vol, reg) ==
    IF reg \in DOMAIN vol THEN vol[reg]
    ELSE IF reg \in DOMAIN d THEN d[reg]
    ELSE 0

\* the registers after the soft reset: configuration cleared (sleep mode)
PowerOnReset(d) ==
    [r \in DOMAIN d |-> IF r \in {reg_CTRLMEAS, reg_CONFIG} THEN 0 ELSE d[r]]

\* the registers after the device takes the write of val to register reg:
\* the reset register acts on the trigger byte only, the two configuration
\* registers store the byte, every other address ignores the write
DevWrite(d, reg, val) ==
    IF reg = reg_RESET
    THEN (IF val = ResetTrigger THEN PowerOnReset(d) ELSE d)
    ELSE IF reg \in {reg_CTRLMEAS, reg_CONFIG} THEN [d EXCEPT ![reg] = val]
    ELSE d

\* the bit fields of the two configuration registers
DevMode(d) == d[reg_CTRLMEAS] % 4
DevPrss(d) == (d[reg_CTRLMEAS] \div 4) % 8
DevTemp(d) == (d[reg_CTRLMEAS] \div 32) % 8
DevFltr(d) == (d[reg_CONFIG] \div 4) % 8
DevSByT(d) == (d[reg_CONFIG] \div 32) % 8

(***************************************************************************)
(* The transport.  A call of a public function runs over a record io: dev  *)
(* the device registers, log the system calls issued so far, err the       *)
(* exception in flight ("none" when there is none), val the value of the   *)
(* last expression, fail the position in log of the system call that       *)
(* fails (0: none does), vol the bytes the device-driven registers show    *)
(* during the call.  Once err is set nothing more is executed.             *)
(***************************************************************************)
IoStart(d, vol, f) ==
    [dev |-> d, vol |-> vol, log |-> << >>, err |-> "none", val |-> None,
     fail |-> f]

\* no device-driven register is read
NoVol == << >>

Call(name, reg, val) == [call |-> name, reg |-> reg, val |-> val, ok |-> TRUE]

\* one system call: it raises OSError when it is the failing one, otherwise
\* it leaves the device as d and yields v
SysCall(io, entry, d, v) ==
    IF io.err # "none" THEN io
    ELSE IF Len(io.log) + 1 = io.fail
    THEN [io EXCEPT !.log = Append(@, [entry EXCEPT !.ok = FALSE]),
                    !.err = "OSError"]
    ELSE [io EXCEPT !.log = Append(@, entry), !.dev = d, !.val = v]

\* bytes([...]) takes integers of 0..255 only
IsByte(x) == x \in 0..255

\* rawSet(ctx, reg, val): os.write(fd, bytes([reg, val])); exceptions re-raised
rawSet(io, reg, val) ==
    IF io.err # "none" THEN io
    ELSE IF ~(IsByte(reg) /\ IsByte(val)) THEN [io EXCEPT !.err = "ValueError"]
    ELSE SysCall(io, Call("write", reg, val), DevWrite(io.dev, reg, val), None)

\* rawGet(ctx, reg): os.write(fd, bytes([reg])) then os.read(fd, 1)[0]
rawGet(io, reg) ==
    IF io.err # "none" THEN io
    ELSE IF ~IsByte(reg) THEN [io EXCEPT !.err = "ValueError"]
    ELSE LET sel == SysCall(io, Call("write", reg, None), io.dev, None)
         IN  SysCall(sel, Call("read", reg, DevRead(io.dev, io.vol, reg)),
                     io.dev, DevRead(io.dev, io.vol, reg))

\* reset(ctx)
reset(io) == rawSet(io, reg_RESET, ResetTrigger)

(***************************************************************************)
(* createContext                                                           *)
(***************************************************************************)
\* the ctx dictionary as createContext first builds it
NewCtx(vco) ==
    [port   |-> 2,
     addr   |-> AddrOf(vco),
     mode   |-> cfg_PWRNRM,
     prss   |-> cfg_OSSPSKP,
     temp   |-> cfg_OSSTSKP,
     sByT   |-> cfg_TSB125,
     fltr   |-> cfg_FLTR2,
     t_fine |-> Num(0),
     trim   |-> [dig_T |-> << >>, dig_P |-> << >>],
     fd     |-> None]

\* the context there is before createContext is called
NoCtx == NewCtx(FALSE)

\* the (LSB, MSB) register pairs of dig_T[1..3] and dig_P[1..9]
TrimPairsT == [i \in 1..3 |-> <<136 + 2 * (i - 1), 137 + 2 * (i - 1)>>]
TrimPairsP == [j \in 1..9 |-> <<142 + 2 * (j - 1), 143 + 2 * (j - 1)>>]

\* _getTrim shifting the byte of LSB instead of the byte of MSB
getTrimSwapped(io, LSB, MSB) ==
    LET Word(hi, lo) ==
            IF lo.err # "none" THEN lo
            ELSE [lo EXCEPT !.val = BitOr(Shl(lo.val, 8), hi.val)]
        Low(hi) == Word(hi, rawGet(hi, LSB))
    IN  Low(rawGet(io, MSB))

\* _getTrim(LSB, MSB): (rawGet(ctx, MSB) << 8) | rawGet(ctx, LSB), the
\* operands evaluated from left to right
getTrim(io, LSB, MSB) ==
    LET Word(hi, lo) ==
            IF lo.err # "none" THEN lo
            ELSE [lo EXCEPT !.val = BitOr(Shl(hi.val, 8), lo.val)]
        Low(hi) == Word(hi, rawGet(hi, LSB))
    IN  Low(rawGet(io, MSB))

\* the list display [None, _getTrim(..), ...]: val is the list read so far
RECURSIVE getTrims(_, _, _, _)
getTrims(io, pairs, i, acc) ==
    IF io.err # "none" THEN io
    ELSE IF i > Len(pairs) THEN [io EXCEPT !.val = acc]
    ELSE LET Rest(t) == getTrims(t, pairs, i + 1, acc @@ (i :> t.val))
         IN  Rest(getTrim(io, pairs[i][1], pairs[i][2]))

\* a Python bool used as an element of bytes([..])
ByteOfBool(b) == IF b THEN 1 ELSE 0

\* the statements after the trimming reads: reset(ctx) and the two rawSet
\* calls, whose register arguments are the literals False and True
CreateCommit(io, c) ==
    LET r == reset(io)
        a == rawSet(r, ByteOfBool(FALSE),
                    BitOr(BitOr(Shl(c.temp, 5), Shl(c.prss, 2)), c.mode))
    IN  rawSet(a, ByteOfBool(TRUE),
               BitOr(BitOr(Shl(c.sByT, 5), Shl(c.fltr, 2)), 0))

\* the whole of createContext(vco) on a device d, with system call f
\* failing, fd the descriptor os.open would return: the final transport
\* record, the context and whether a descriptor was opened
createContext(d, vco, f, fd) ==
    LET \* reset and the two rawSet calls, with the context built
        Commit(ioP, c3, opened) ==
            [io |-> CreateCommit(ioP, c3), ctx |-> c3, opened |-> opened]
        \* ctx['trim']['dig_P'] = [...]
        ReadP(ioT, c2, opened) ==
            LET Store(ioP) ==
                    Commit(ioP,
                           IF ioP.err = "none"
                           THEN [c2 EXCEPT !.trim.dig_P = ioP.val] ELSE c2,
                           opened)
            IN  Store(getTrims(ioT, TrimPairsP, 1, (0 :> None)))
        \* ctx['trim']['dig_T'] = [...]
        ReadT(bind, c1, opened) ==
            LET Store(ioT) ==
                    ReadP(ioT,
                          IF ioT.err = "none"
                          THEN [c1 EXCEPT !.trim.dig_T = ioT.val] ELSE c1,
                          opened)
            IN  Store(getTrims(bind, TrimPairsT, 1, (0 :> None)))
        \* the handler of the first try prints e.value, which an OSError
        \* does not have
        Bound(io1, io2) ==
            ReadT(IF io2.err # "none" THEN [io2 EXCEPT !.err = "AttributeError"]
                  ELSE io2,
                  IF io1.err = "none" THEN [NewCtx(vco) EXCEPT !.fd = fd]
                  ELSE NewCtx(vco),
                  io1.err = "none")
        \* fcntl.ioctl(ctx['fd'], ctx['port'], ctx['addr'])
        Opened(io1) ==
            Bound(io1, SysCall(io1, Call("ioctl", None, NewCtx(vco).addr), d, None))
    IN  \* os.open('/dev/i2c-2', os.O_RDWR)
        Opened(SysCall(IoStart(d, NoVol, f),
                       Call("open", None, NewCtx(vco).port), d, fd))

\* the number of system calls of a createContext that succeeds
CreateCalls == 53

(***************************************************************************)
(* The configuration setters                                               *)
(***************************************************************************)
\* lim with the limits of the 3-bit fields at both indices
limCopied == [b \in 2..3 |-> <<0, 7>>]

\* the list lim of _setConfig, at the indices in use
lim == [b \in 2..3 |-> IF b = 2 THEN <<0, 3>> ELSE <<0, 7>>]

\* _setConfig(ctx, bit, cfg, val)
setConfig(io, bit, cfg, val) ==
    IF ~(lim[bit][1] <= val /\ val <= lim[bit][2])
    THEN [io EXCEPT !.err = "ValueError"]
    ELSE rawSet(io, IF cfg THEN reg_CONFIG ELSE reg_CTRLMEAS, val)

\* the argument expressions and the _setConfig call of each setter
\* setMode passing the width of the 3-bit fields to _setConfig
setModeWide(io, c, val) ==
    setConfig(io, 3, FALSE, BitOr(BitOr(Shl(c.temp, 5), Shl(c.prss, 2)), val))

setMode(io, c, val) ==
    setConfig(io, 2, FALSE, BitOr(BitOr(Shl(c.temp, 5), Shl(c.prss, 2)), val))

setOverSampPressure(io, c, val) ==
    setConfig(io, 3, FALSE, BitOr(BitOr(Shl(c.temp, 5), Shl(val, 2)), c.mode))

setOverSampTemperature(io, c, val) ==
    setConfig(io, 3, FALSE, BitOr(BitOr(Shl(val, 5), Shl(c.prss, 2)), c.mode))

setStandByTime(io, c, val) ==
    setConfig(io, 3, TRUE, BitOr(BitOr(Shl(val, 5), Shl(c.fltr, 2)), 0))

setFilter(io, c, val) ==
    setConfig(io, 3, TRUE, BitOr(BitOr(Shl(c.sByT, 5), Shl(val, 2)), 0))

Setters == {"setMode", "setOverSampPressure", "setOverSampTemperature",
            "setStandByTime", "setFilter"}

\* the try body of the setter named op
SetterBody(op, io, c, val) ==
    CASE op = "setMode"                -> setMode(io, c, val)
      [] op = "setOverSampPressure"    -> setOverSampPressure(io, c, val)
      [] op = "setOverSampTemperature" -> setOverSampTemperature(io, c, val)
      [] op = "setStandByTime"         -> setStandByTime(io, c, val)
      [] op = "setFilter"              -> setFilter(io, c, val)

(***************************************************************************)
(* The compensation formulas                                               *)
(***************************************************************************)
\* _getTemp / _getPress: (_msb << 12) | (_lsb << 4) | _xlsb of three reads
getRaw(io, r0, r1, r2) ==
    LET Raw(m, l, x) ==
            IF x.err # "none" THEN x
            ELSE [x EXCEPT !.val = BitOr(BitOr(Shl(m.val, 12), Shl(l.val, 4)),
                                         x.val)]
        Xlsb(m, l) == Raw(m, l, rawGet(l, r2))
        Lsb(m) == Xlsb(m, rawGet(m, r1))
    IN  Lsb(rawGet(io, r0))

\* t_fine with the scale of var2 (131072.0, 8192.0) in var1 as well
TFineOfOneScale(adc_T, T) ==
    LET a    == Num(adc_T)
        var1 == FMul(FSub(FDiv(a, Num(131072)), FDiv(Num(T[1]), Num(8192))),
                     Num(T[2]))
        var2 == FMul(FMul(FSub(FDiv(a, Num(131072)), FDiv(Num(T[1]), Num(8192))),
                          FSub(FDiv(a, Num(131072)), FDiv(Num(T[1]), Num(8192)))),
                     Num(T[3]))
    IN  FAdd(var1, var2)

\* t_fine of getTemperature for the raw value adc_T and the list T
TFineOf(adc_T, T) ==
    LET a    == Num(adc_T)
        var1 == FMul(FSub(FDiv(a, Num(16384)), FDiv(Num(T[1]), Num(1024))),
                     Num(T[2]))
        var2 == FMul(FMul(FSub(FDiv(a, Num(131072)), FDiv(Num(T[1]), Num(8192))),
                          FSub(FDiv(a, Num(131072)), FDiv(Num(T[1]), Num(8192)))),
                     Num(T[3]))
    IN  FAdd(var1, var2)

\* the value getTemperature returns for a t_fine
CelsiusOf(t) == FDiv(t, Num(5120))

\* 2147483648.0
TwoTo31 == FMul(Num(65536), Num(32768))

\* the denominator var1 of the pressure formula at the zero test
PressVar1(t_fine, P) ==
    LET Scaled(v) == FMul(FAdd(Num(1), FDiv(v, Num(32768))), Num(P[1]))
        Next1(var1) ==
            Scaled(FDiv(FAdd(FDiv(FMul(FMul(Num(P[3]), var1), var1),
                                  Num(524288)),
                             FMul(Num(P[2]), var1)),
                        Num(524288)))
    IN  Next1(FSub(FDiv(t_fine, Num(2)), Num(64000)))

\* var2 of the pressure formula when p is computed
PressVar2(t_fine, P) ==
    LET Next2(var1) ==
            FAdd(FDiv(FAdd(FDiv(FMul(FMul(var1, var1), Num(P[6])), Num(32768)),
                           FMul(FMul(var1, Num(P[5])), Num(2))),
                      Num(4)),
                 FMul(Num(P[4]), Num(65536)))
    IN  Next2(FSub(FDiv(t_fine, Num(2)), Num(64000)))

\* getPressure without the test of var1: the division by var1 raises
PressureOfUnguarded(adc_P, P, t_fine) ==
    LET Final(p) ==
            FAdd(p, FDiv(FAdd(FAdd(FDiv(FMul(FMul(Num(P[9]), p), p), TwoTo31),
                                   FDiv(FMul(p, Num(P[8])), Num(32768))),
                              Num(P[7])),
                         Num(16)))
        Divided(var1) ==
            IF FIsZero(var1) THEN [kind |-> "ZeroDivisionError", v |-> 0]
            ELSE [kind |-> "float",
                  v |-> Final(FDiv(FMul(FSub(FSub(Num(1048576), Num(adc_P)),
                                             FDiv(PressVar2(t_fine, P),
                                                  Num(4096))),
                                        Num(6250)),
                                   var1))]
    IN  Divided(PressVar1(t_fine, P))

\* the value getPressure returns for the raw value adc_P, the list P and
\* the t_fine of the context: the integer 0 when var1 is zero
PressureOf(adc_P, P, t_fine) ==
    LET \* the last three statements, p being (1048576 - adc_P - ...) / var1
        Final(p) ==
            FAdd(p, FDiv(FAdd(FAdd(FDiv(FMul(FMul(Num(P[9]), p), p), TwoTo31),
                                   FDiv(FMul(p, Num(P[8])), Num(32768))),
                              Num(P[7])),
                         Num(16)))
        Guarded(var1) ==
            IF FIsZero(var1) THEN [kind |-> "int", v |-> 0]
            ELSE [kind |-> "float",
                  v |-> Final(FDiv(FMul(FSub(FSub(Num(1048576), Num(adc_P)),
                                             FDiv(PressVar2(t_fine, P),
                                                  Num(4096))),
                                        Num(6250)),
                                   var1))]
    IN  Guarded(PressVar1(t_fine, P))

(***************************************************************************)
(* The public functions called on a live context.  Each takes the          *)
(* transport record at the call and the context, and yields the transport  *)
(* record at the end, the context as the call leaves it, the value         *)
(* returned and what the call printed.                                     *)
(***************************************************************************)
NoRet == [kind |-> "none", v |-> None]

Result(io, c, ret, printed) ==
    [io |-> io, ctx |-> c, ret |-> ret, printed |-> printed]

\* a function that returns the byte or raises
ByteResult(io, c) ==
    Result(io, c, IF io.err = "none" THEN [kind |-> "int", v |-> io.val]
                  ELSE NoRet, "none")

\* getTemperature keeping t_fine in a local variable
getTemperatureNoStore(io0, c) ==
    LET Ret(io, t) ==
            IF io.err # "none" THEN Result(io, c, NoRet, "none")
            ELSE Result(io, c, [kind |-> "float", v |-> CelsiusOf(t)], "none")
        Compensate(io) == Ret(io, TFineOf(io.val, c.trim.dig_T))
    IN  Compensate(getRaw(io0, reg_TEMP0, reg_TEMP1, reg_TEMP2))

\* getTemperature adding the new t_fine to the one of the context
getTemperatureAccumulating(io0, c) ==
    LET Ret(io, t) ==
            IF io.err # "none" THEN Result(io, c, NoRet, "none")
            ELSE Result(io, [c EXCEPT !.t_fine = FAdd(@, t)],
                        [kind |-> "float", v |-> CelsiusOf(t)], "none")
        Compensate(io) == Ret(io, TFineOf(io.val, c.trim.dig_T))
    IN  Compensate(getRaw(io0, reg_TEMP0, reg_TEMP1, reg_TEMP2))

getTemperature(io0, c) ==
    LET Ret(io, t) ==
            IF io.err # "none" THEN Result(io, c, NoRet, "none")
            ELSE Result(io, [c EXCEPT !.t_fine = t],
                        [kind |-> "float", v |-> CelsiusOf(t)], "none")
        Compensate(io) == Ret(io, TFineOf(io.val, c.trim.dig_T))
    IN  Compensate(getRaw(io0, reg_TEMP0, reg_TEMP1, reg_TEMP2))

getPressure(io0, c) ==
    LET Compensate(io) ==
            IF io.err # "none" THEN Result(io, c, NoRet, "none")
            ELSE Result(io, c, PressureOf(io.val, c.trim.dig_P, c.t_fine),
                        "none")
    IN  Compensate(getRaw(io0, reg_PRESS0, reg_PRESS1, reg_PRESS2))

getID(io0, c) == ByteResult(rawGet(io0, reg_ID), c)

\* a setter: the try body, then the handler that prints whatever was raised
\* and lets the function return None
setter(op, io0, c, val) ==
    LET Handled(io) == Result([io EXCEPT !.err = "none"], c, NoRet, io.err)
    IN  Handled(SetterBody(op, io0, c, val))

\* reset putting the placeholder back in ctx['t_fine']
resetCallClearing(io0, c) ==
    Result(reset(io0), [c EXCEPT !.t_fine = Num(0)], NoRet, "none")

resetCall(io0, c) == Result(reset(io0), c, NoRet, "none")

\* bool(rawGet(ctx, reg_STATUS) & mask)
StatusBit(io0, c, mask) ==
    LET Test(io) ==
            Result(io, c, IF io.err = "none"
                          THEN [kind |-> "bool", v |-> BitAnd(io.val, mask) # 0]
                          ELSE NoRet, "none")
    IN  Test(rawGet(io0, reg_STATUS))

\* isMeasuring testing bit 2 of the status byte
isMeasuringBit2(io0, c) == StatusBit(io0, c, 4)

isMeasuring(io0, c) == StatusBit(io0, c, 8)

isUpdating(io0, c) == StatusBit(io0, c, 1)

rawGetCall(io0, c, reg) == ByteResult(rawGet(io0, reg), c)

rawSetCall(io0, c, reg, val) == Result(rawSet(io0, reg, val), c, NoRet, "none")

(***************************************************************************)
(* The state                                                               *)
(***************************************************************************)
VARIABLES
    phase,    \* the life of the one context of a run: "none", "live", "lost"
              \* (createContext raised and nobody holds the context), "purged"
    ctx,      \* the ctx dictionary
    dev,      \* the registers of the device
    opens,    \* the number of descriptors os.open has returned
    closes,   \* the number of descriptors os.close has released
    outcome,  \* the call that has just returned to the caller, Idle otherwise
    tHist     \* set: a getTemperature has stored t_fine in this context;
              \* last: the value the most recent one stored

vars == <<phase, ctx, dev, opens, closes, outcome, tHist>>

Idle ==
    [op |-> "idle", arg |-> << >>, raised |-> "none", ret |-> NoRet,
     printed |-> "none", log |-> << >>]

\* the 16-bit words of the calibration block of the devices considered:
\* dig_T1..dig_T3 then dig_P1..dig_P9
Calibrations ==
    { <<27504, 26435, 64536,
        36477, 54851, 3024, 2855, 140, 65529, 15500, 50936, 6000>>,
      <<8192, 16000, 2,
        1, 0, 0, 1, 3, 0, 16, 0, 0>> }

\* the calibration registers holding the words w, low byte first
CalImage(w) ==
    [r \in CalRegs |->
        LET word == w[((r - 136) \div 2) + 1]
        IN  IF (r - 136) % 2 = 0 THEN word % 256 ELSE word \div 256]

\* the device after power-on with calibration words w
PowerOn(w) ==
    PowerOnReset(CalImage(w)
                 @@ [r \in DevRegs \ CalRegs |-> IF r = reg_ID THEN 88 ELSE 0])

\* the conversion results the device may show: the bytes (msb, lsb, xlsb)
\* of a temperature or pressure register triplet
Samples == { <<126, 237, 0>>, <<101, 90, 12>>, <<128, 0, 0>> }

\* the status bytes the device may show
StatusBytes == {0, 1, 8, 9}

\* the device-driven registers showing sample s at the triplet from r0
VolData(r0, s) == (r0 :> s[1]) @@ ((r0 + 1) :> s[2]) @@ ((r0 + 2) :> s[3])

\* the status register showing b
VolStatus(b) == (reg_STATUS :> b)

\* the arguments the caller passes to the setters
SetterVals == -1..8

\* the registers and values of the caller's direct accesses
RawGetRegs == {reg_CTRLMEAS, reg_CONFIG, 256}
RawSetRegs == {reg_CTRLMEAS}
RawSetVals == {7, 256}

Init ==
    /\ phase = "none"
    /\ ctx = NoCtx
    /\ dev \in {PowerOn(w) : w \in Calibrations}
    /\ opens = 0
    /\ closes = 0
    /\ outcome = Idle
    /\ tHist = [set |-> FALSE, last |-> Num(0)]

(***************************************************************************)
(* The calls                                                               *)
(***************************************************************************)
CreateContext(vco, f) ==
    /\ phase = "none"
    /\ outcome = Idle
    /\ LET Ends(r) ==
               /\ ctx' = r.ctx
               /\ dev' = r.io.dev
               /\ opens' = IF r.opened THEN opens + 1 ELSE opens
               /\ phase' = IF r.io.err = "none" THEN "live" ELSE "lost"
               /\ outcome' = [op |-> "createContext", arg |-> <<vco>>,
                              raised |-> r.io.err,
                              ret |-> IF r.io.err = "none"
                                      THEN [kind |-> "ctx", v |-> None]
                                      ELSE NoRet,
                              printed |-> "none", log |-> r.io.log]
       IN  Ends(createContext(dev, vco, f, opens + 1))
    /\ tHist' = [set |-> FALSE, last |-> Num(0)]
    /\ closes' = closes

\* purgeContext(ctx): os.close(ctx['fd'])
PurgeContext ==
    /\ phase = "live"
    /\ outcome = Idle
    /\ phase' = "purged"
    /\ closes' = closes + 1
    /\ outcome' = [Idle EXCEPT !.op = "purgeContext",
                               !.log = <<Call("close", None, ctx.fd)>>]
    /\ UNCHANGED <<ctx, dev, opens, tHist>>

\* a call op(args) on the live context that ends as r
Returns(op, args, r) ==
    /\ ctx' = r.ctx
    /\ dev' = r.io.dev
    /\ outcome' = [op |-> op, arg |-> args, raised |-> r.io.err,
                   ret |-> r.ret, printed |-> r.printed, log |-> r.io.log]
    /\ UNCHANGED <<phase, opens, closes>>

CanCall == phase = "live" /\ outcome = Idle

GetTemperature(s, f) ==
    /\ CanCall
    /\ LET Ends(r) ==
               /\ Returns("getTemperature", << >>, r)
               /\ tHist' = IF r.io.err = "none"
                           THEN [set |-> TRUE,
                                 last |-> TFineOf(r.io.val, ctx.trim.dig_T)]
                           ELSE tHist
       IN  Ends(getTemperature(IoStart(dev, VolData(reg_TEMP0, s), f), ctx))

GetPressure(s, f) ==
    /\ CanCall
    /\ Returns("getPressure", << >>,
               getPressure(IoStart(dev, VolData(reg_PRESS0, s), f), ctx))
    /\ UNCHANGED tHist

GetID(f) ==
    /\ CanCall
    /\ Returns("getID", << >>, getID(IoStart(dev, NoVol, f), ctx))
    /\ UNCHANGED tHist

SetterCall(op, v, f) ==
    /\ CanCall
    /\ Returns(op, <<v>>, setter(op, IoStart(dev, NoVol, f), ctx, v))
    /\ UNCHANGED tHist

SetMode(v, f) == SetterCall("setMode", v, f)

SetOverSampPressure(v, f) == SetterCall("setOverSampPressure", v, f)

SetOverSampTemperature(v, f) == SetterCall("setOverSampTemperature", v, f)

SetStandByTime(v, f) == SetterCall("setStandByTime", v, f)

SetFilter(v, f) == SetterCall("setFilter", v, f)

Reset(f) ==
    /\ CanCall
    /\ Returns("reset", << >>, resetCall(IoStart(dev, NoVol, f), ctx))
    /\ UNCHANGED tHist

IsMeasuring(b, f) ==
    /\ CanCall
    /\ Returns("isMeasuring", << >>,
               isMeasuring(IoStart(dev, VolStatus(b), f), ctx))
    /\ UNCHANGED tHist

IsUpdating(b, f) ==
    /\ CanCall
    /\ Returns("isUpdating", << >>,
               isUpdating(IoStart(dev, VolStatus(b), f), ctx))
    /\ UNCHANGED tHist

RawGet(reg, f) ==
    /\ CanCall
    /\ Returns("rawGet", <<reg>>, rawGetCall(IoStart(dev, NoVol, f), ctx, reg))
    /\ UNCHANGED tHist

RawSet(reg, val, f) ==
    /\ CanCall
    /\ Returns("rawSet", <<reg, val>>, rawSetCall(IoStart(dev, NoVol, f), ctx, reg, val))
    /\ UNCHANGED tHist

\* the caller takes the result of the call and goes on
Continue ==
    /\ outcome # Idle
    /\ outcome' = Idle
    /\ UNCHANGED <<phase, ctx, dev, opens, closes, tHist>>

(***************************************************************************)
(* The device on its own                                                   *)
(***************************************************************************)
\* a forced conversion ends: the device goes back to sleep
DeviceSleeps ==
    /\ outcome = Idle
    /\ DevMode(dev) \notin {cfg_PWRSLP, cfg_PWRNRM}
    /\ dev' = [dev EXCEPT ![reg_CTRLMEAS] = @ - DevMode(dev)]
    /\ UNCHANGED <<phase, ctx, opens, closes, outcome, tHist>>

Next ==
    \/ \E vco \in BOOLEAN, f \in 0..CreateCalls : CreateContext(vco, f)
    \/ PurgeContext
    \/ \E s \in Samples, f \in 0..6 : GetTemperature(s, f)
    \/ \E s \in Samples, f \in 0..6 : GetPressure(s, f)
    \/ \E f \in 0..2 : GetID(f)
    \/ \E v \in SetterVals, f \in 0..1 : SetMode(v, f)
    \/ \E v \in SetterVals, f \in 0..1 : SetOverSampPressure(v, f)
    \/ \E v \in SetterVals, f \in 0..1 : SetOverSampTemperature(v, f)
    \/ \E v \in SetterVals, f \in 0..1 : SetStandByTime(v, f)
    \/ \E v \in SetterVals, f \in 0..1 : SetFilter(v, f)
    \/ \E f \in 0..1 : Reset(f)
    \/ \E b \in StatusBytes, f \in 0..2 : IsMeasuring(b, f)
    \/ \E b \in StatusBytes, f \in 0..2 : IsUpdating(b, f)
    \/ \E reg \in RawGetRegs, f \in 0..2 : RawGet(reg, f)
    \/ \E reg \in RawSetRegs, val \in RawSetVals, f \in 0..1 : RawSet(reg, val, f)
    \/ Continue
    \/ DeviceSleeps

Spec == Init /\ [][Next]_vars

(***************************************************************************)
(* Specifications of single functions, over wider inputs                   *)
(***************************************************************************)
\* createContext(vco) returning on the device with calibration words w
Created(w, vco) == createContext(PowerOn(w), vco, 0, 1)

\* the state in which createContext has just handed a context to the
\* caller, for the calibration words of ws
LiveInit(ws) ==
    /\ phase = "live"
    /\ \E w \in ws, vco \in BOOLEAN :
           /\ ctx = Created(w, vco).ctx
           /\ dev = Created(w, vco).io.dev
    /\ opens = 1
    /\ closes = 0
    /\ outcome = Idle
    /\ tHist = [set |-> FALSE, last |-> Num(0)]

\* every value of a byte
AllBytes == 0..255

\* the status polls, the status register showing any byte
InitStatus == LiveInit(Calibrations)

NextStatus ==
    \/ \E b \in AllBytes, f \in 0..2 : IsMeasuring(b, f)
    \/ \E b \in AllBytes, f \in 0..2 : IsUpdating(b, f)
    \/ Continue

SpecStatus == InitStatus /\ [][NextStatus]_vars

\* the calibration words w with word k replaced by v
WithWord(w, k, v) == [w EXCEPT ![k] = v]

\* calibration blocks whose dig_P1 (word 4) is zero, and one where it is not
DegenerateCalibrations ==
    {WithWord(w, 4, 0) : w \in Calibrations}
        \cup {w \in Calibrations : w[1] = 27504}

\* the compensation reads on these devices
InitDegenerate == LiveInit(DegenerateCalibrations)

NextCompensation ==
    \/ \E s \in Samples, f \in 0..6 : GetTemperature(s, f)
    \/ \E s \in Samples, f \in 0..6 : GetPressure(s, f)
    \/ Continue

SpecDegenerate == InitDegenerate /\ [][NextCompensation]_vars

\* the number of generated calibration blocks
TrimPatterns == 6

\* calibration blocks of varied bytes: all zero, all ones, the blocks of
\* Calibrations, and blocks whose 24 bytes differ from one another
TrimContents ==
    Calibrations
        \cup {[i \in 1..12 |-> 0], [i \in 1..12 |-> 65535]}
        \cup {[i \in 1..12 |-> ((17 * i + 40 * k) % 256) * 256
                                  + ((91 * i + 7 * k + 3) % 256)]
                  : k \in 1..TrimPatterns}

\* createContext on these devices
InitTrim ==
    /\ phase = "none"
    /\ ctx = NoCtx
    /\ dev \in {PowerOn(w) : w \in TrimContents}
    /\ opens = 0
    /\ closes = 0
    /\ outcome = Idle
    /\ tHist = [set |-> FALSE, last |-> Num(0)]

NextTrim ==
    \/ \E vco \in BOOLEAN, f \in 0..CreateCalls : CreateContext(vco, f)
    \/ Continue

SpecTrim == InitTrim /\ [][NextTrim]_vars

\* a list as createContext builds them, index 0 unused
TrimList(w) == (0 :> None) @@ [i \in DOMAIN w |-> w[i]]

\* the coefficients of the reference vector of the data sheet
ReferenceT == TrimList(<<27504, 26435, -1000>>)
ReferenceP ==
    TrimList(<<36477, -10685, 3024, 2855, 140, -7, 15500, -14600, 6000>>)

\* a context handed out by createContext in which the caller has put the
\* coefficients of the reference vector
InitReference ==
    /\ phase = "live"
    /\ \E w \in Calibrations, vco \in BOOLEAN :
           /\ ctx = [Created(w, vco).ctx EXCEPT !.trim.dig_T = ReferenceT,
                                                !.trim.dig_P = ReferenceP]
           /\ dev = Created(w, vco).io.dev
    /\ opens = 1
    /\ closes = 0
    /\ outcome = Idle
    /\ tHist = [set |-> FALSE, last |-> Num(0)]

SpecReference == InitReference /\ [][NextCompensation]_vars

(***************************************************************************)
(* Vocabulary of the properties                                            *)
(***************************************************************************)
\* the bit width of the field a setter targets
Width(op) == IF op = "setMode" THEN 2 ELSE 3

InRange(op, v) == 0 <= v /\ v <= Pow2(Width(op)) - 1

\* the field a setter targets, in the device and in the context
DevField(op, d) ==
    CASE op = "setMode"                -> DevMode(d)
      [] op = "setOverSampPressure"    -> DevPrss(d)
      [] op = "setOverSampTemperature" -> DevTemp(d)
      [] op = "setStandByTime"         -> DevSByT(d)
      [] op = "setFilter"              -> DevFltr(d)

CtxField(op, c) ==
    CASE op = "setMode"                -> c.mode
      [] op = "setOverSampPressure"    -> c.prss
      [] op = "setOverSampTemperature" -> c.temp
      [] op = "setStandByTime"         -> c.sByT
      [] op = "setFilter"              -> c.fltr

\* a system call of the call that has just returned failed
BusFailed(o) == \E i \in DOMAIN o.log : ~o.log[i].ok

\* the call that has just returned wrote a register
Wrote(o) ==
    \E i \in DOMAIN o.log :
        o.log[i].call = "write" /\ o.log[i].val # None /\ o.log[i].ok

\* a setter has just returned from a call with argument v
SetterReturned(o) == o.op \in Setters

\* the functions called on a live context
PublicOps ==
    Setters \cup {"getTemperature", "getPressure", "getID", "reset",
                  "isMeasuring", "isUpdating", "rawGet", "rawSet"}

\* the positions in log of the reads of register reg
ReadsOf(log, reg) ==
    {i \in DOMAIN log : log[i].call = "read" /\ log[i].reg = reg}

\* the positions in log of the soft-reset writes
ResetsIn(log) ==
    {i \in DOMAIN log : /\ log[i].call = "write"
                        /\ log[i].reg = reg_RESET
                        /\ log[i].val = ResetTrigger}

\* the device-driven registers as the three reads of a compensation call
\* found them
VolOfLog(log) ==
    (log[2].reg :> log[2].val) @@ (log[4].reg :> log[4].val)
        @@ (log[6].reg :> log[6].val)

\* contexts with the calibration of c and other settings, address or
\* descriptor
OtherSettings(c) ==
    { [c EXCEPT !.addr = AddrOf(c.addr = AddrOf(FALSE))],
      [c EXCEPT !.mode = cfg_PWRSLP, !.prss = 5, !.temp = 2],
      [c EXCEPT !.sByT = 7, !.fltr = 4, !.fd = c.fd + 1] }

\* contexts with the calibration of c after another history of
\* getTemperature calls
OtherHistory(c) == { [c EXCEPT !.t_fine = t] : t \in {Num(0), Num(5120)} }

\* the device of d with the configuration registers holding other values
OtherConfig(d) == [d EXCEPT ![reg_CTRLMEAS] = 39, ![reg_CONFIG] = 68]

\* two values returned are the same
SameRet(a, b) ==
    /\ a.kind = b.kind
    /\ IF a.kind = "float" THEN FEq(a.v, b.v) ELSE a.v = b.v

\* the 16-bit pattern the device holds in the registers lo and lo + 1, low
\* byte at the lower address
WordAt(d, lo) == d[lo + 1] * 256 + d[lo]

\* the two's-complement value of a 16-bit pattern
Signed16(x) == IF x >= 32768 THEN x - 65536 ELSE x

\* bit k of the byte s is set
BitSet(s, k) == (s \div Pow2(k)) % 2 = 1

\* the raw value a compensation call assembled from its three reads
RawOfLog(log) ==
    BitOr(BitOr(Shl(log[2].val, 12), Shl(log[4].val, 4)), log[6].val)

\* x lies in [lo / scale, hi / scale]
Between(x, lo, hi, scale) ==
    FCmp(x, Frac(lo, scale)) >= 0 /\ FCmp(x, Frac(hi, scale)) <= 0

\* getTemperature has returned from the raw temperature of the reference
\* vector
ReferenceTemperature ==
    /\ outcome.op = "getTemperature"
    /\ outcome.raised = "none"
    /\ ctx.trim.dig_T = ReferenceT
    /\ RawOfLog(outcome.log) = 519888

\* getPressure has returned from the raw pressure of the reference vector,
\* after the getTemperature of the reference vector
ReferencePressure ==
    /\ outcome.op = "getPressure"
    /\ outcome.raised = "none"
    /\ ctx.trim.dig_T = ReferenceT
    /\ ctx.trim.dig_P = ReferenceP
    /\ RawOfLog(outcome.log) = 415148
    /\ tHist.set
    /\ FEq(ctx.t_fine, TFineOf(519888, ReferenceT))

(***************************************************************************)
(* Properties                                                              *)
(***************************************************************************)
\* C1: a setter called with a value inside its field's range, the bus
\* working, leaves that field of the device register equal to the value.
C1_InRangeCommitted ==
    SetterReturned(outcome) =>
        ((InRange(outcome.op, outcome.arg[1]) /\ ~BusFailed(outcome))
            => DevField(outcome.op, dev) = outcome.arg[1])

\* C2: while the context is live the cached fields equal the bit fields
\* the device holds in 0xF4 and 0xF5.
C2_CacheMatchesDevice ==
    phase = "live" =>
        /\ dev[reg_CTRLMEAS]
             = BitOr(BitOr(Shl(ctx.temp, 5), Shl(ctx.prss, 2)), ctx.mode)
        /\ dev[reg_CONFIG] = BitOr(Shl(ctx.sByT, 5), Shl(ctx.fltr, 2))

\* C3: after a setter call whose register write was performed, the cached
\* field the setter targets equals the value passed.
C3_AcceptedUpdatesCache ==
    (SetterReturned(outcome) /\ Wrote(outcome))
        => CtxField(outcome.op, ctx) = outcome.arg[1]

\* C4: a setter called with a value outside its field's range issues no
\* system call and leaves the context and the device registers as they were.
C4_OutOfRangeNoEffect ==
    [][(SetterReturned(outcome') /\ ~InRange(outcome'.op, outcome'.arg[1]))
          => (outcome'.log = << >> /\ ctx' = ctx /\ dev' = dev)]_vars

C4_Witness ==
    /\ outcome.op = "setMode"
    /\ outcome.arg = <<4>>
    /\ outcome.printed = "ValueError"
    /\ DevMode(dev) = cfg_PWRFOR

\* C5: what the caller observes of a setter call with a value outside the
\* range (exception raised, value returned) differs from what it observes
\* of an accepted call, which returns None.
C5_RangeFailureSignalled ==
    (SetterReturned(outcome) /\ ~InRange(outcome.op, outcome.arg[1]))
        => <<outcome.raised, outcome.ret>> # <<"none", NoRet>>

\* C6: when createContext returns, 0xF4 holds 0x03 and 0xF5 holds 0x44.
C6_DefaultsCommitted ==
    (outcome.op = "createContext" /\ outcome.raised = "none")
        => (dev[reg_CTRLMEAS] = 3 /\ dev[reg_CONFIG] = 68)

\* C7: once createContext has failed, or the context has been purged, every
\* descriptor that was opened has been closed.
C7_HandleReleased ==
    phase \in {"lost", "purged"} => opens = closes

\* C8: a call on a live context in which a system call fails raises the
\* failure to its caller, and the failed system call is the last it issued.
C8_TransportFailureObserved ==
    (outcome.op \in PublicOps /\ BusFailed(outcome))
        => /\ outcome.raised = "OSError"
           /\ \A i \in DOMAIN outcome.log :
                  ~outcome.log[i].ok => i = Len(outcome.log)

\* C9 as claimed: a getPressure that evaluates the formula does so after a
\* getTemperature has stored t_fine in the context.
C9_TFineAlwaysStored ==
    (outcome.op = "getPressure" /\ outcome.raised = "none") => tHist.set

\* C9 as amended: the result of getPressure is the formula applied to the
\* t_fine stored by the most recent getTemperature that completed on the
\* context, and to the placeholder 0 of creation when there was none.
C9_UsesContextTFine ==
    (outcome.op = "getPressure" /\ outcome.raised = "none")
        => outcome.ret = PressureOf(RawOfLog(outcome.log), ctx.trim.dig_P,
                                    IF tHist.set THEN tHist.last ELSE Num(0))

C9_Witness ==
    /\ outcome.op = "getPressure"
    /\ outcome.raised = "none"
    /\ tHist.set
    /\ outcome.ret
         # PressureOf(RawOfLog(outcome.log), ctx.trim.dig_P, Num(0))

\* C10: a step of a compensation read, an identification read, a status
\* poll or a setter other than setMode leaves the power-mode bits of the
\* device as they were.
C10_ModeOnlyBySetMode ==
    [][outcome'.op \in (PublicOps \ {"setMode", "reset", "rawGet", "rawSet"})
          => DevMode(dev') = DevMode(dev)]_vars

\* C11: a status poll that returns yields TRUE exactly when bit 3
\* (isMeasuring) or bit 0 (isUpdating) of the status byte it read is set,
\* whatever the other bits; it writes no register and leaves the context
\* and the device as they were.
C11_StatusBits ==
    [][outcome'.op \in {"isMeasuring", "isUpdating"}
          => /\ dev' = dev
             /\ ctx' = ctx
             /\ ~Wrote(outcome')
             /\ outcome'.raised = "none"
                  => outcome'.ret
                       = [kind |-> "bool",
                          v |-> BitSet(outcome'.log[2].val,
                                       IF outcome'.op = "isMeasuring"
                                       THEN 3 ELSE 0)]]_vars

\* isMeasuring has answered FALSE on 0xF7, every bit but bit 3 set
C11_Witness ==
    /\ outcome.op = "isMeasuring"
    /\ outcome.raised = "none"
    /\ outcome.log[2].val = 247
    /\ outcome.ret = [kind |-> "bool", v |-> FALSE]

\* C12: a getPressure on a context whose var1 is zero (dig_P1 = 0), the
\* bus working, raises nothing, returns the integer 0 and leaves the
\* context as it was, for every raw pressure and every t_fine.
C12_DegenerateReturnsZero ==
    [][(/\ outcome'.op = "getPressure"
        /\ ~BusFailed(outcome')
        /\ FIsZero(PressVar1(ctx.t_fine, ctx.trim.dig_P)))
          => /\ outcome'.raised = "none"
             /\ outcome'.ret.kind = "int"
             /\ outcome'.ret.v = 0
             /\ ctx' = ctx]_vars

\* getPressure has returned 0 with dig_P1 = 0 and a t_fine stored by
\* getTemperature
C12_Witness ==
    /\ outcome.op = "getPressure"
    /\ outcome.ret.kind = "int"
    /\ outcome.ret.v = 0
    /\ ctx.trim.dig_P[1] = 0
    /\ tHist.set
    /\ ~FIsZero(ctx.t_fine)

\* C13: a createContext that returns has written the soft reset before
\* every read of a calibration register and has read each calibration
\* register exactly once; no later driver operation reads one.
C13_ResetBeforeCalibration ==
    /\ (outcome.op = "createContext" /\ outcome.raised = "none")
          => /\ ResetsIn(outcome.log) # {}
             /\ \A reg \in CalRegs :
                    /\ Cardinality(ReadsOf(outcome.log, reg)) = 1
                    /\ \A i \in ReadsOf(outcome.log, reg) :
                           \E r \in ResetsIn(outcome.log) : r < i
    /\ outcome.op \in (PublicOps \ {"rawGet"})
          => \A reg \in CalRegs : ReadsOf(outcome.log, reg) = {}

\* C14: a compensation call that returns gives the result, and
\* getTemperature stores the t_fine, that the same call gives on any
\* context with the same calibration and the same raw bytes read, whatever
\* the other fields of the context, the configuration of the device and,
\* for getTemperature, the t_fine left by earlier calls.
C14_Deterministic ==
    /\ (outcome.op = "getTemperature" /\ outcome.raised = "none")
          => \A c2 \in OtherSettings(ctx) \cup OtherHistory(ctx) :
                \E r \in {getTemperature(IoStart(OtherConfig(dev),
                                                 VolOfLog(outcome.log), 0),
                                         c2)} :
                    /\ SameRet(r.ret, outcome.ret)
                    /\ FEq(r.ctx.t_fine, ctx.t_fine)
    /\ (outcome.op = "getPressure" /\ outcome.raised = "none")
          => \A c2 \in OtherSettings(ctx) :
                \E r \in {getPressure(IoStart(OtherConfig(dev),
                                              VolOfLog(outcome.log), 0),
                                      c2)} :
                    SameRet(r.ret, outcome.ret)

\* getPressure has returned on the context of the other address, after a
\* getTemperature, the device holding a configuration written by a setter
C14_Witness ==
    /\ outcome.op = "getPressure"
    /\ outcome.raised = "none"
    /\ outcome.ret.kind = "float"
    /\ tHist.set
    /\ ctx.addr = AddrOf(TRUE)
    /\ dev[reg_CTRLMEAS] = 7

C16_OtherFieldsKept ==
    [][(SetterReturned(outcome') /\ Wrote(outcome'))
          => \A op \in Setters \ {outcome'.op} :
                 DevField(op, dev') = DevField(op, dev)]_vars

\* C17: when createContext returns, each coefficient of the context is
\* the two's-complement value of the 16-bit pattern of its register pair.
C17_TwosComplement ==
    (outcome.op = "createContext" /\ outcome.raised = "none")
        => /\ \A i \in 1..3 :
                 ctx.trim.dig_T[i] = Signed16(WordAt(dev, 136 + 2 * (i - 1)))
           /\ \A j \in 1..9 :
                 ctx.trim.dig_P[j] = Signed16(WordAt(dev, 142 + 2 * (j - 1)))

\* C18: when createContext returns, dig_T[i] (i in 1..3) is
\* (high << 8) | low of the registers 0x88 + 2(i-1) (low) and 0x89 + 2(i-1)
\* (high), dig_P[j] (j in 1..9) the same from 0x8E + 2(j-1) and
\* 0x8F + 2(j-1), and index 0 of each list is None.
C18_LittleEndianPairs ==
    (outcome.op = "createContext" /\ outcome.raised = "none")
        => /\ DOMAIN ctx.trim.dig_T = 0..3
           /\ DOMAIN ctx.trim.dig_P = 0..9
           /\ ctx.trim.dig_T[0] = None
           /\ ctx.trim.dig_P[0] = None
           /\ \A i \in 1..3 :
                 ctx.trim.dig_T[i] = WordAt(dev, 136 + 2 * (i - 1))
           /\ \A j \in 1..9 :
                 ctx.trim.dig_P[j] = WordAt(dev, 142 + 2 * (j - 1))

\* createContext has returned on a device whose dig_P9 bytes are 0x70 (low)
\* and 0x17 (high)
C18_Witness ==
    /\ outcome.op = "createContext"
    /\ outcome.raised = "none"
    /\ dev[158] = 112
    /\ dev[159] = 23
    /\ ctx.trim.dig_P[9] = 6000

\* C19: a step of a function called on the live context leaves the
\* address, the descriptor and the calibration lists of the context as they
\* were, and leaves t_fine as it was unless the function is getTemperature.
C19_ContextFrame ==
    [][outcome'.op \in PublicOps
          => /\ ctx'.addr = ctx.addr
             /\ ctx'.port = ctx.port
             /\ ctx'.fd = ctx.fd
             /\ ctx'.trim = ctx.trim
             /\ outcome'.op # "getTemperature" => ctx'.t_fine = ctx.t_fine]_vars

\* reset has returned on a context in which getTemperature has stored a
\* t_fine other than the placeholder
C19_Witness ==
    /\ outcome.op = "reset"
    /\ outcome.raised = "none"
    /\ tHist.set
    /\ ~FIsZero(ctx.t_fine)
    /\ FEq(ctx.t_fine, tHist.last)

====
